---- MODULE Spec2Model ----
(***************************************************************************)
(* Verification model of the concurrent and stateful lessons of the        *)
(* repository "Rust - A Project-Based Journey".                             *)
(*                                                                         *)
(* Every lesson is a standalone program, so every lesson has its own       *)
(* specification (Spec19, Spec18, Spec20, Spec22); the variables of the    *)
(* other lessons are pinned while one lesson runs.                         *)
(***************************************************************************)
EXTENDS Integers, Sequences, FiniteSets, Bags, TLC

VARIABLES
    \* ---- lesson 19: 19_SharedStateConcurrency/src/main.rs ----
    counter,        \* the i32 inside Arc<Mutex<i32>>
    mutex_locked,   \* the Mutex's lock bit
    guard_owner,    \* the thread whose MutexGuard is alive (0 = main, NoThread = none)
    pc19,           \* position of main (index 0) and of each spawned closure
    loaded,         \* per thread: the value read by `*num += 1` before it is stored
    handles,        \* the Vec of JoinHandles pushed so far (thread numbers)
    joined19,       \* how many handles main has joined
    final_count,    \* main's local `final_count`
    \* ---- lesson 18: 18_BasicConcurrency/src/main.rs ----
    pc18,           \* position of main
    mainI,          \* main's loop variable `i` (sections 1 and 2)
    pcT,            \* position of the closures: "A" (section 1), "B" (section 2), "C" (section 3)
    iT,             \* the loop variable `i` of closures "A" and "B"
    outT,           \* the numbers each of "A" and "B" has printed, in order
    mainOut,        \* the lines main has printed, in order
    exited18,       \* main has returned: the process is gone
    \* ---- lesson 20: 20_AsyncProgramming/src/main.rs ----
    pc20,           \* position of async main
    now20,          \* the clock, in milliseconds since main started
    fut,            \* per async fn: "idle" (not polled), "sleeping", "done"
    deadline,       \* per async fn: when its time::sleep elapses
    polled,         \* the branches tokio::join! has polled in the current poll of the join
    events,         \* the start/finish lines printed so far: <<phase, fn, "start"|"finish">>
    start_time, start_time_concurrent,  \* the two Instant::now() readings
    seq_elapsed, conc_elapsed,          \* the two elapsed() values printed
    late,           \* clock ticks that passed while some step could have run
    \* ---- lesson 22: 22_SimpleWebAPI/src/main.rs ----
    users,          \* the users table: id -> [username, email], for the ids that have a row
    reqs,           \* the handler invocations between two of their statements (a bag)
    last,           \* the request that has just returned, with its response (IdleReq when sent)
    solo,           \* history: the table as the running request found it, while it runs alone
    deleted,        \* history: the ids whose DELETE statement ran, with no POST since
    \* ---- lesson 13: 13_Testing/src/lib.rs ----
    call13,         \* the latest call of add_two, Rectangle::can_hold or Guess::new, with its outcome
    \* ---- lesson 9: 9_ErrorHandling/src/main.rs ----
    username_txt,   \* what File::open("username.txt") and read_to_string give in this run
    verbose9,       \* read_username_from_file_verbose: position, locals, reads attempted, result
    concise9,       \* read_username_from_file_concise: the same
    \* ---- lesson 14: 14_FileIO/src/main.rs ----
    pc14,           \* position of main (and of run_manual_io while main calls it)
    fs14,           \* the current directory: file name -> the chunks written to the file
    out14,          \* history: the filesystem operations that succeeded and the prints, in order
    failed14,       \* history: some filesystem operation of this run returned Err
    content14,      \* main's `content` (read from log.txt), once read
    contents14,     \* run_manual_io's `contents`, once read
    \* ---- lesson 16: 16_SmartPointers/src/main.rs ----
    pc16,           \* position of the code that uses the MockMessenger
    sent_messages,  \* the Vec<String> inside Rc<RefCell<..>>
    borrow16,       \* the RefCell's borrow flag: 0 unused, n > 0 shared borrows, -1 mutable borrow
    calls16,        \* history: the messages send was called with, in call order
    len16           \* the value of messages.len() that was printed and asserted on

vars19 == <<counter, mutex_locked, guard_owner, pc19, loaded, handles, joined19, final_count>>

vars18 == <<pc18, mainI, pcT, iT, outT, mainOut, exited18>>

vars20 == <<pc20, now20, fut, deadline, polled, events, start_time, start_time_concurrent,
            seq_elapsed, conc_elapsed, late>>

vars22 == <<users, reqs, last, solo, deleted>>

vars13 == <<call13>>

vars9 == <<username_txt, verbose9, concise9>>

vars14 == <<pc14, fs14, out14, failed14, content14, contents14>>

vars16 == <<pc16, sent_messages, borrow16, calls16, len16>>

vars == <<vars19, vars18, vars20, vars22, vars13, vars9, vars14, vars16>>

\* Each lesson is its own process: its steps leave the other lessons' state alone.
Only19 == UNCHANGED <<vars18, vars20, vars22, vars13, vars9, vars14, vars16>>
Only18 == UNCHANGED <<vars19, vars20, vars22, vars13, vars9, vars14, vars16>>
Only20 == UNCHANGED <<vars19, vars18, vars22, vars13, vars9, vars14, vars16>>
Only22 == UNCHANGED <<vars19, vars18, vars20, vars13, vars9, vars14, vars16>>
Only13 == UNCHANGED <<vars19, vars18, vars20, vars22, vars9, vars14, vars16>>
Only9 == UNCHANGED <<vars19, vars18, vars20, vars22, vars13, vars14, vars16>>
Only14 == UNCHANGED <<vars19, vars18, vars20, vars22, vars13, vars9, vars16>>
Only16 == UNCHANGED <<vars19, vars18, vars20, vars22, vars13, vars9, vars14>>

----------------------------------------------------------------------------
(***************************************************************************)
(* Lesson 19: ten threads increment a counter behind Arc<Mutex<i32>>.      *)
(***************************************************************************)

\* `for i in 0..10`: the number of spawned threads.
NumThreads == 10

\* `assert_eq!(final_count, 10)`: the value main expects.
ExpectedCount == 10

MainThread == 0
Workers == 1..NumThreads
Threads19 == {MainThread} \cup Workers
NoThread == -1
Unset == -1

\* Positions at which a thread's MutexGuard (`num`) is alive.
HoldsGuard(t) ==
    IF t = MainThread THEN pc19[t] = "read_final"
    ELSE pc19[t] \in {"load", "store"}

Init19 ==
    /\ counter = 0
    /\ mutex_locked = FALSE
    /\ guard_owner = NoThread
    /\ pc19 = [t \in Threads19 |-> IF t = MainThread THEN "spawn" ELSE "unspawned"]
    /\ loaded = [t \in Workers |-> Unset]
    /\ handles = <<>>
    /\ joined19 = 0
    /\ final_count = Unset

\* A lock that is granted whether or not it is held.
LockFree_Always == TRUE

\* Mutex::lock blocks while the lock bit is set.
LockFree == ~mutex_locked

\* main: one iteration of `for i in 0..10 { ... thread::spawn ...; handles.push }`.
Spawn19 ==
    /\ pc19[MainThread] = "spawn"
    /\ Len(handles) < NumThreads
    /\ LET t == Len(handles) + 1 IN
        /\ handles' = Append(handles, t)
        /\ pc19' = [pc19 EXCEPT ![t] = "lock",
                                ![MainThread] = IF t = NumThreads THEN "join" ELSE "spawn"]
    /\ UNCHANGED <<counter, mutex_locked, guard_owner, loaded, joined19, final_count>>
    /\ Only19

\* closure: `let mut num = counter_clone.lock().unwrap();`
WorkerLock(t) ==
    /\ pc19[t] = "lock"
    /\ LockFree
    /\ mutex_locked' = TRUE
    /\ guard_owner' = t
    /\ pc19' = [pc19 EXCEPT ![t] = "load"]
    /\ UNCHANGED <<counter, loaded, handles, joined19, final_count>>
    /\ Only19

\* closure: the read half of `*num += 1;`
WorkerLoad(t) ==
    /\ pc19[t] = "load"
    /\ loaded' = [loaded EXCEPT ![t] = counter]
    /\ pc19' = [pc19 EXCEPT ![t] = "store"]
    /\ UNCHANGED <<counter, mutex_locked, guard_owner, handles, joined19, final_count>>
    /\ Only19

\* The value `*num += 1` writes back.
Incremented(v) == v + 1

\* closure: the write half of `*num += 1;`, the println!, and the drop of `num`
\* at the end of the closure, which releases the lock.
WorkerStore(t) ==
    /\ pc19[t] = "store"
    /\ counter' = Incremented(loaded[t])
    /\ mutex_locked' = FALSE
    /\ guard_owner' = IF guard_owner = t THEN NoThread ELSE guard_owner
    /\ loaded' = [loaded EXCEPT ![t] = Unset]     \* the temporary is dead after the store
    /\ pc19' = [pc19 EXCEPT ![t] = "done"]
    /\ UNCHANGED <<handles, joined19, final_count>>
    /\ Only19

\* A join that does not wait for the thread.
JoinReady_NoWait(t) == TRUE

\* JoinHandle::join returns once the thread has finished.
JoinReady(t) == pc19[t] = "done"

\* main: one iteration of `for handle in handles { handle.join().unwrap(); }`.
Join19 ==
    /\ pc19[MainThread] = "join"
    /\ joined19 < Len(handles)
    /\ JoinReady(handles[joined19 + 1])
    /\ joined19' = joined19 + 1
    /\ pc19' = [pc19 EXCEPT ![MainThread] =
                    IF joined19 + 1 = Len(handles) THEN "lock_final" ELSE "join"]
    /\ UNCHANGED <<counter, mutex_locked, guard_owner, loaded, handles, final_count>>
    /\ Only19

\* main: `counter.lock().unwrap()` of line 90.
MainLock ==
    /\ pc19[MainThread] = "lock_final"
    /\ LockFree
    /\ mutex_locked' = TRUE
    /\ guard_owner' = MainThread
    /\ pc19' = [pc19 EXCEPT ![MainThread] = "read_final"]
    /\ UNCHANGED <<counter, loaded, handles, joined19, final_count>>
    /\ Only19

\* main: `let final_count = *guard;` and the drop of the temporary guard.
MainRead ==
    /\ pc19[MainThread] = "read_final"
    /\ final_count' = counter
    /\ mutex_locked' = FALSE
    /\ guard_owner' = IF guard_owner = MainThread THEN NoThread ELSE guard_owner
    /\ pc19' = [pc19 EXCEPT ![MainThread] = "assert"]
    /\ UNCHANGED <<counter, loaded, handles, joined19>>
    /\ Only19

\* main: `assert_eq!(final_count, 10);` panics on a mismatch.
MainAssert ==
    /\ pc19[MainThread] = "assert"
    /\ pc19' = [pc19 EXCEPT ![MainThread] =
                    IF final_count = ExpectedCount THEN "done" ELSE "panicked"]
    /\ UNCHANGED <<counter, mutex_locked, guard_owner, loaded, handles, joined19, final_count>>
    /\ Only19

Next19 ==
    \/ Spawn19
    \/ \E t \in Workers : WorkerLock(t)
    \/ \E t \in Workers : WorkerLoad(t)
    \/ \E t \in Workers : WorkerStore(t)
    \/ Join19
    \/ MainLock
    \/ MainRead
    \/ MainAssert

----------------------------------------------------------------------------
(***************************************************************************)
(* Lesson 18: an unjoined thread, a joined thread, a thread with `move`.   *)
(***************************************************************************)

\* `for i in 1..=5` of the section-1 closure and of the section-2 closure.
ItersA == 5
ItersB == 5
\* `for i in 1..=3` of main in section 1 and in section 2.
MainIters1 == 3
MainIters2 == 3

Loopers == {"A", "B"}
Closures18 == {"A", "B", "C"}
Iters(t) == IF t = "A" THEN ItersA ELSE ItersB

Init18 ==
    /\ pc18 = "spawnA"
    /\ mainI = 0
    /\ pcT = [t \in Closures18 |-> "unspawned"]
    /\ iT = [t \in Loopers |-> 0]
    /\ outT = [t \in Loopers |-> <<>>]
    /\ mainOut = <<>>
    /\ exited18 = FALSE

\* main: `thread::spawn(|| { for i in 1..=5 ... })` of section 1; the handle is dropped.
SpawnA ==
    /\ ~exited18 /\ pc18 = "spawnA"
    /\ pcT' = [pcT EXCEPT !["A"] = "print"]
    /\ iT' = [iT EXCEPT !["A"] = 1]
    /\ pc18' = "print1"
    /\ mainI' = 1
    /\ UNCHANGED <<outT, mainOut, exited18>>
    /\ Only18

\* closure A or B: `println!("... says: {}", i);`
ThreadPrint(t) ==
    /\ ~exited18 /\ pcT[t] = "print"
    /\ outT' = [outT EXCEPT ![t] = Append(@, iT[t])]
    /\ pcT' = [pcT EXCEPT ![t] = "sleep"]
    /\ UNCHANGED <<pc18, mainI, iT, mainOut, exited18>>
    /\ Only18

\* closure A or B: `thread::sleep(1ms)` returns; next iteration or end of closure.
ThreadWake(t) ==
    /\ ~exited18 /\ pcT[t] = "sleep"
    /\ IF iT[t] < Iters(t)
       THEN /\ iT' = [iT EXCEPT ![t] = @ + 1]
            /\ pcT' = [pcT EXCEPT ![t] = "print"]
       ELSE /\ pcT' = [pcT EXCEPT ![t] = "done"]
            /\ UNCHANGED iT
    /\ UNCHANGED <<pc18, mainI, outT, mainOut, exited18>>
    /\ Only18

\* main: `println!("Main thread says: {}", i);` (section 1) or the "(Joined)" one.
MainPrint(section) ==
    /\ ~exited18
    /\ pc18 = (IF section = 1 THEN "print1" ELSE "print2")
    /\ mainOut' = Append(mainOut, <<"says", section, mainI>>)
    /\ pc18' = (IF section = 1 THEN "sleep1" ELSE "sleep2")
    /\ UNCHANGED <<mainI, pcT, iT, outT, exited18>>
    /\ Only18

\* main: `thread::sleep(1ms)` returns in section 1; after the loop, section 2's spawn.
MainWake1 ==
    /\ ~exited18 /\ pc18 = "sleep1"
    /\ IF mainI < MainIters1
       THEN mainI' = mainI + 1 /\ pc18' = "print1"
       ELSE mainI' = 0 /\ pc18' = "spawnB"
    /\ UNCHANGED <<pcT, iT, outT, mainOut, exited18>>
    /\ Only18

\* main: `let handle = thread::spawn(...)` of section 2.
SpawnB ==
    /\ ~exited18 /\ pc18 = "spawnB"
    /\ pcT' = [pcT EXCEPT !["B"] = "print"]
    /\ iT' = [iT EXCEPT !["B"] = 1]
    /\ pc18' = "print2"
    /\ mainI' = 1
    /\ UNCHANGED <<outT, mainOut, exited18>>
    /\ Only18

\* main: `thread::sleep(1ms)` returns in section 2; after the loop, the join.
MainWake2 ==
    /\ ~exited18 /\ pc18 = "sleep2"
    /\ IF mainI < MainIters2
       THEN mainI' = mainI + 1 /\ pc18' = "print2"
       ELSE mainI' = 0 /\ pc18' = "joinB"
    /\ UNCHANGED <<pcT, iT, outT, mainOut, exited18>>
    /\ Only18

\* A join that returns at once.
Finished18_NoWait(t) == TRUE

\* JoinHandle::join blocks until the thread it represents has finished.
Finished18(t) == pcT[t] = "done"

\* main: `handle.join().unwrap();`
JoinB ==
    /\ ~exited18 /\ pc18 = "joinB"
    /\ Finished18("B")
    /\ pc18' = "finished"
    /\ UNCHANGED <<mainI, pcT, iT, outT, mainOut, exited18>>
    /\ Only18

\* main: `println!("Spawned thread has finished. Main thread will now exit.");`
PrintFinished ==
    /\ ~exited18 /\ pc18 = "finished"
    /\ mainOut' = Append(mainOut, <<"finished", 2, 0>>)
    /\ pc18' = "spawnC"
    /\ UNCHANGED <<mainI, pcT, iT, outT, exited18>>
    /\ Only18

\* main: `let handle_move = thread::spawn(move || { println!(...) });`
SpawnC ==
    /\ ~exited18 /\ pc18 = "spawnC"
    /\ pcT' = [pcT EXCEPT !["C"] = "print"]
    /\ pc18' = "joinC"
    /\ UNCHANGED <<mainI, iT, outT, mainOut, exited18>>
    /\ Only18

\* closure C: its single println!, then the closure ends.
MovedPrint ==
    /\ ~exited18 /\ pcT["C"] = "print"
    /\ pcT' = [pcT EXCEPT !["C"] = "done"]
    /\ UNCHANGED <<pc18, mainI, iT, outT, mainOut, exited18>>
    /\ Only18

\* main: `handle_move.join().unwrap();`
JoinC ==
    /\ ~exited18 /\ pc18 = "joinC"
    /\ Finished18("C")
    /\ pc18' = "return"
    /\ UNCHANGED <<mainI, pcT, iT, outT, mainOut, exited18>>
    /\ Only18

\* A return of main that first waits for the section-1 thread.
MayReturn_WaitsForA == pcT["A"] = "done"

\* main returns as soon as it reaches the end: no handle of thread A exists.
MayReturn == TRUE

\* main: the end of `fn main`; the process exits and every thread still running dies.
MainReturn ==
    /\ ~exited18 /\ pc18 = "return"
    /\ MayReturn
    /\ exited18' = TRUE
    /\ pc18' = "exited"
    /\ UNCHANGED <<mainI, pcT, iT, outT, mainOut>>
    /\ Only18

Next18 ==
    \/ SpawnA
    \/ \E t \in Loopers : ThreadPrint(t)
    \/ \E t \in Loopers : ThreadWake(t)
    \/ \E section \in {1, 2} : MainPrint(section)
    \/ MainWake1
    \/ SpawnB
    \/ MainWake2
    \/ JoinB
    \/ PrintFinished
    \/ SpawnC
    \/ MovedPrint
    \/ JoinC
    \/ MainReturn

----------------------------------------------------------------------------
(***************************************************************************)
(* Lesson 20: three async fns awaited one after the other, then joined.    *)
(***************************************************************************)

\* The Duration::from_millis arguments of learn_song, sing_song and dance.
LearnMs == 500
SingMs == 600
DanceMs == 700

\* Most late ticks (time passing while a step could run) in one run.
MaxLate == 3

Fns == <<"learn", "sing", "dance">>
FnSet == {Fns[k] : k \in 1..Len(Fns)}
SleepMs(f) == IF f = "learn" THEN LearnMs ELSE IF f = "sing" THEN SingMs ELSE DanceMs

RECURSIVE GCD(_, _)
GCD(a, b) == IF b = 0 THEN a ELSE GCD(b, a % b)

\* The clock's granularity: the coarsest at which every sleep is a whole number of ticks.
TickMs == GCD(LearnMs, GCD(SingMs, DanceMs))

Init20 ==
    /\ pc20 = "start"
    /\ now20 = 0
    /\ fut = [f \in FnSet |-> "idle"]
    /\ deadline = [f \in FnSet |-> Unset]
    /\ polled = {}
    /\ events = <<>>
    /\ start_time = Unset
    /\ start_time_concurrent = Unset
    /\ seq_elapsed = Unset
    /\ conc_elapsed = Unset
    /\ late = 0

\* main: `let start_time = Instant::now();`
MainStart20 ==
    /\ pc20 = "start"
    /\ start_time' = now20
    /\ pc20' = "seq"
    /\ UNCHANGED <<now20, fut, deadline, polled, events, start_time_concurrent,
                   seq_elapsed, conc_elapsed, late>>
    /\ Only20

\* First poll of an async fn: its first println!, then time::sleep registers its timer.
FnStart(phase, f) ==
    /\ fut' = [fut EXCEPT ![f] = "sleeping"]
    /\ deadline' = [deadline EXCEPT ![f] = now20 + SleepMs(f)]
    /\ events' = Append(events, <<phase, f, "start">>)

\* A timer that needs one more tick than its duration.
SleepElapsed_Strict(f) == fut[f] = "sleeping" /\ now20 > deadline[f]

\* time::sleep(d).await is ready once d has elapsed.
SleepElapsed(f) == fut[f] = "sleeping" /\ now20 >= deadline[f]

\* A later poll of an async fn whose sleep has elapsed: the second println!, end of fn.
FnFinish(phase, f) ==
    /\ fut' = [fut EXCEPT ![f] = "done"]
    /\ events' = Append(events, <<phase, f, "finish">>)
    /\ UNCHANGED deadline

\* A sequential phase that starts a function without awaiting the one before.
Awaited_NoWait(k) == TRUE

\* `a().await; b().await;`: b() is called only after a().await has returned.
Awaited(k) == \A j \in 1..(k - 1) : fut[Fns[j]] = "done"

\* main: `learn_song().await` / `sing_song().await` / `dance().await`, first poll.
SeqStart(k) ==
    /\ pc20 = "seq"
    /\ fut[Fns[k]] = "idle"
    /\ Awaited(k)
    /\ FnStart("seq", Fns[k])
    /\ UNCHANGED <<pc20, now20, polled, start_time, start_time_concurrent,
                   seq_elapsed, conc_elapsed, late>>
    /\ Only20

\* main: the awaited function is polled again after its timer fired.
SeqFinish(k) ==
    /\ pc20 = "seq"
    /\ SleepElapsed(Fns[k])
    /\ FnFinish("seq", Fns[k])
    /\ UNCHANGED <<pc20, now20, polled, start_time, start_time_concurrent,
                   seq_elapsed, conc_elapsed, late>>
    /\ Only20

\* main: `println!("Sequential execution took: {:?}", start_time.elapsed());`
SeqReport ==
    /\ pc20 = "seq"
    /\ \A f \in FnSet : fut[f] = "done"
    /\ seq_elapsed' = now20 - start_time
    /\ pc20' = "conc_begin"
    /\ UNCHANGED <<now20, fut, deadline, polled, events, start_time,
                   start_time_concurrent, conc_elapsed, late>>
    /\ Only20

\* main: `let start_time_concurrent = Instant::now();` and the three new futures
\* handed to tokio::join!.
ConcBegin ==
    /\ pc20 = "conc_begin"
    /\ start_time_concurrent' = now20
    /\ fut' = [f \in FnSet |-> "idle"]
    /\ deadline' = [f \in FnSet |-> Unset]
    /\ polled' = {}
    /\ pc20' = "join"
    /\ UNCHANGED <<now20, events, start_time, seq_elapsed, conc_elapsed, late>>
    /\ Only20

\* tokio::join!, one poll of the join: each branch that is not done is polled once
\* (the order of the branches within a poll is the macro's choice).
JoinPoll(f) ==
    /\ pc20 = "join"
    /\ f \notin polled
    /\ fut[f] # "done"
    /\ polled' = polled \cup {f}
    /\ IF fut[f] = "idle" THEN FnStart("conc", f)
       ELSE IF SleepElapsed(f) THEN FnFinish("conc", f)
       ELSE UNCHANGED <<fut, deadline, events>>
    /\ UNCHANGED <<pc20, now20, start_time, start_time_concurrent,
                   seq_elapsed, conc_elapsed, late>>
    /\ Only20

\* A join that is complete as soon as one branch is (what select! does).
JoinComplete_Any == \E f \in FnSet : fut[f] = "done"

\* tokio::join! completes when every branch has completed.
JoinComplete == \A f \in FnSet : fut[f] = "done"

\* tokio::join!, end of one poll: Ready when every branch is done, Pending otherwise.
JoinPollEnd ==
    /\ pc20 = "join"
    /\ \A f \in FnSet : f \in polled \/ fut[f] = "done"
    /\ pc20' = IF JoinComplete THEN "conc_report" ELSE "join_pending"
    /\ polled' = {}
    /\ UNCHANGED <<now20, fut, deadline, events, start_time, start_time_concurrent,
                   seq_elapsed, conc_elapsed, late>>
    /\ Only20

\* The runtime polls main again when a timer of one of the branches has fired.
JoinWake ==
    /\ pc20 = "join_pending"
    /\ \E f \in FnSet : SleepElapsed(f)
    /\ pc20' = "join"
    /\ UNCHANGED <<now20, fut, deadline, polled, events, start_time, start_time_concurrent,
                   seq_elapsed, conc_elapsed, late>>
    /\ Only20

\* main: `println!("Concurrent execution took: {:?}", start_time_concurrent.elapsed());`
ConcReport ==
    /\ pc20 = "conc_report"
    /\ conc_elapsed' = now20 - start_time_concurrent
    /\ pc20' = "done"
    /\ UNCHANGED <<now20, fut, deadline, polled, events, start_time,
                   start_time_concurrent, seq_elapsed, late>>
    /\ Only20

Step20 ==
    \/ MainStart20
    \/ \E k \in 1..Len(Fns) : SeqStart(k)
    \/ \E k \in 1..Len(Fns) : SeqFinish(k)
    \/ SeqReport
    \/ ConcBegin
    \/ \E f \in FnSet : JoinPoll(f)
    \/ JoinPollEnd
    \/ JoinWake
    \/ ConcReport

\* The clock advances by one tick. While every task waits for a timer this is
\* the only thing that can happen; a tick while some step could run makes that
\* step late (a sleep lasts at least its duration, steps take some time).
Tick ==
    /\ pc20 # "done"
    /\ IF ENABLED Step20
       THEN late < MaxLate /\ late' = late + 1
       ELSE late' = late
    /\ now20' = now20 + TickMs
    /\ UNCHANGED <<pc20, fut, deadline, polled, events, start_time, start_time_concurrent,
                   seq_elapsed, conc_elapsed>>
    /\ Only20

Next20 ==
    \/ Step20
    \/ Tick

----------------------------------------------------------------------------
(***************************************************************************)
(* Lesson 22: the five user handlers over the users table.  Every SQL      *)
(* statement is one atomic step; the statements of one handler interleave  *)
(* with those of the other requests in flight.                             *)
(***************************************************************************)

\* The ids a row or a request path can carry: 1..MaxId.
MaxId == 2
\* Handler invocations that can be between two of their statements at once.
MaxInFlight == 2

Ids == 1..MaxId

\* CreateUserPayload values (username, email).
Payloads ==
    { [username |-> "carol", email |-> "carol@example.com"],
      [username |-> "dave", email |-> "dave@example.com"] }
NoPayload == [username |-> "", email |-> ""]

\* StatusCode::OK (a bare Json<T> response), CREATED, NO_CONTENT, NOT_FOUND,
\* INTERNAL_SERVER_ERROR.
StatusOk == 200
\* A create handler that returns its Json without StatusCode::CREATED.
StatusCreated_AsOk == StatusOk
StatusCreated == 201
StatusNoContent == 204
StatusNotFound == 404
StatusInternalServerError == 500

\* struct User { id, username, email }, as read from the row with that id.
User(id) == [id |-> id, username |-> users[id].username, email |-> users[id].email]

HasRow(id) == id \in DOMAIN users

NoBody == [empty |-> TRUE]
NoResponse == [result |-> "none", status |-> 0, body |-> NoBody]
IdleReq ==
    [kind |-> "none", id |-> 0, payload |-> NoPayload, pc |-> "idle",
     new_user_id |-> 0, sqlx_err |-> "none", response |-> NoResponse]

\* Every table over the ids: the database outlives the server process.
Tables == UNION { [D -> Payloads] : D \in SUBSET Ids }

\* No request runs alone: none runs, or another one has run a statement meanwhile.
NotAlone == [alone |-> FALSE, users |-> [i \in {} |-> NoPayload]]

Init22 ==
    /\ users \in Tables
    /\ reqs = EmptyBag
    /\ last = IdleReq
    /\ solo = NotAlone
    /\ deleted = {}

\* ---- sqlx ----

\* Any statement may fail for a reason that is not a missing row (sqlx::Error
\* other than RowNotFound): the pool timed out, the file is locked, a constraint
\* failed.  A failed statement changes nothing in the table.
Failing == BOOLEAN

\* A SELECT without its WHERE clause: fetch_one gives the first row of the table.
FetchOne_NoWhere(id, fail) ==
    IF fail THEN [ok |-> FALSE, err |-> "Database", id |-> 0]
    ELSE IF DOMAIN users # {}
    THEN [ok |-> TRUE, err |-> "none",
          id |-> CHOOSE i \in DOMAIN users : \A j \in DOMAIN users : i <= j]
    ELSE [ok |-> FALSE, err |-> "RowNotFound", id |-> 0]

\* `SELECT ... FROM users WHERE id = ?` with fetch_one: the row, or Error::RowNotFound.
FetchOne(id, fail) ==
    IF fail THEN [ok |-> FALSE, err |-> "Database", id |-> 0]
    ELSE IF HasRow(id) THEN [ok |-> TRUE, err |-> "none", id |-> id]
    ELSE [ok |-> FALSE, err |-> "RowNotFound", id |-> 0]

\* An INSERT whose two binds are swapped.
Insert_SwappedBinds(id, payload) ==
    [i \in DOMAIN users \cup {id} |->
        IF i = id THEN [username |-> payload.email, email |-> payload.username] ELSE users[i]]

\* `INSERT INTO users (username, email) VALUES (?, ?)` giving the row the rowid id:
\* the table afterwards.
Insert(id, payload) ==
    [i \in DOMAIN users \cup {id} |-> IF i = id THEN payload ELSE users[i]]

\* An UPDATE without its WHERE clause.
Update_EveryRow(id, payload) == [i \in DOMAIN users |-> payload]

\* `UPDATE users SET username = ?, email = ? WHERE id = ?`: the table afterwards;
\* an UPDATE that matches no row changes nothing and is no error.
Update(id, payload) ==
    [i \in DOMAIN users |-> IF i = id THEN payload ELSE users[i]]

\* A DELETE without its WHERE clause.
Delete_EveryRow(id) == [i \in {} |-> NoPayload]

\* `DELETE FROM users WHERE id = ?`: the table afterwards.
Delete(id) == [i \in DOMAIN users \ {id} |-> users[i]]

\* ---- error handling ----

\* impl From<sqlx::Error> for ApiError, which `?` applies.
FromSqlxError(e) == "SqlxError"

\* A map_err without the RowNotFound arm: every error goes through From.
GetMapErr_NoMatch(e) == "SqlxError"

\* get_user_handler's map_err: RowNotFound => NotFound, _ => ApiError::from(e).
GetMapErr(e) == IF e = "RowNotFound" THEN "NotFound" ELSE FromSqlxError(e)

\* update_user_handler's map_err on the existence check: |_| ApiError::NotFound.
UpdateCheckMapErr(e) == "NotFound"

\* impl IntoResponse for ApiError.
IntoResponse(apiError) ==
    IF apiError = "SqlxError"
    THEN [result |-> "Err", status |-> StatusInternalServerError,
          body |-> [error |-> "Internal Server Error"]]
    ELSE [result |-> "Err", status |-> StatusNotFound,
          body |-> [error |-> "Resource not found"]]

\* An Ok(..) return of a handler with its status and JSON body.
OkResponse(status, body) == [result |-> "Ok", status |-> status, body |-> body]

\* ---- the router ----

\* The router calls a handler with what the extractors give it: the path id
\* (Path<i64>) and the JSON payload (Json<CreateUserPayload>).
NewReq(kind, id, payload) ==
    [IdleReq EXCEPT !.kind = kind, !.pc = "running", !.id = id, !.payload = payload]

\* A handler that runs more than one statement is called only while fewer than
\* MaxInFlight invocations are between statements.
HasRoom == BagCardinality(reqs) < MaxInFlight

\* No response is on its way out: a response is sent before anything else happens.
Quiet == last = IdleReq

InFlight == BagToSet(reqs)

\* The handler invocation r returns: the response goes out, with the sqlx error
\* the handler met, if any.
Return(r, resp, e) ==
    /\ last' = [r EXCEPT !.pc = "responded", !.response = resp, !.sqlx_err = e]
    /\ reqs' = IF r \in InFlight THEN reqs (-) SetToBag({r}) ELSE reqs

\* The handler invocation r goes on to its next statement as r2.
Goto(r, r2) ==
    /\ reqs' = (IF r \in InFlight THEN reqs (-) SetToBag({r}) ELSE reqs) (+) SetToBag({r2})
    /\ UNCHANGED last

\* A handler is called: its request runs alone when no other invocation is
\* between two statements, and stops being alone when another handler is called.
Called ==
    solo' = IF reqs = EmptyBag THEN [alone |-> TRUE, users |-> users] ELSE NotAlone

\* The response has been written to the connection.
Sent ==
    /\ ~Quiet
    /\ last' = IdleReq
    /\ solo' = NotAlone
    /\ UNCHANGED <<users, reqs, deleted>>
    /\ Only22

\* ---- the handlers ----
\* A request's arrival touches no state, so it is taken together with the
\* handler's first statement.

\* get_users_handler: SELECT id, username, email FROM users; fetch_all.
GetUsers(fail) ==
    /\ Quiet
    /\ LET r == NewReq("list", 0, NoPayload) IN
        IF fail
        THEN Return(r, IntoResponse(FromSqlxError("Database")), "Database")
        ELSE Return(r, OkResponse(StatusOk, [users |-> {User(id) : id \in DOMAIN users}]), "none")
    /\ Called
    /\ UNCHANGED <<users, deleted>>
    /\ Only22

\* create_user_handler: INSERT INTO users (username, email) VALUES (?, ?); the row
\* gets a rowid no row has; last_insert_rowid() is kept in new_user_id.
CreateInsert(payload, fail, id) ==
    /\ Quiet
    /\ HasRoom
    /\ LET r == NewReq("create", 0, payload) IN
        IF fail
        THEN /\ Return(r, IntoResponse(FromSqlxError("Database")), "Database")
             /\ UNCHANGED users
        ELSE /\ ~HasRow(id)
             /\ users' = Insert(id, payload)
             /\ Goto(r, [r EXCEPT !.new_user_id = id, !.pc = "select_new"])
    /\ Called
    /\ deleted' = {}
    /\ Only22

\* create_user_handler: SELECT ... WHERE id = new_user_id; fetch_one; `?`; 201.
CreateSelect(q, fail) ==
    /\ Quiet
    /\ q.pc = "select_new"
    /\ LET r == FetchOne(q.new_user_id, fail) IN
        IF r.ok
        THEN Return(q, OkResponse(StatusCreated, User(r.id)), "none")
        ELSE Return(q, IntoResponse(FromSqlxError(r.err)), r.err)
    /\ UNCHANGED <<users, solo, deleted>>
    /\ Only22

\* get_user_handler: SELECT ... WHERE id = ?; fetch_one; map_err; 200.
GetUser(id, fail) ==
    /\ Quiet
    /\ LET r == FetchOne(id, fail) IN
        IF r.ok
        THEN Return(NewReq("get", id, NoPayload), OkResponse(StatusOk, User(r.id)), "none")
        ELSE Return(NewReq("get", id, NoPayload), IntoResponse(GetMapErr(r.err)), r.err)
    /\ Called
    /\ UNCHANGED <<users, deleted>>
    /\ Only22

\* update_user_handler: SELECT id FROM users WHERE id = ?; fetch_one; map_err.
UpdateCheck(id, payload, fail) ==
    /\ Quiet
    /\ HasRoom
    /\ LET q == NewReq("update", id, payload)
           r == FetchOne(id, fail) IN
        IF r.ok
        THEN Goto(q, [q EXCEPT !.pc = "update"])
        ELSE Return(q, IntoResponse(UpdateCheckMapErr(r.err)), r.err)
    /\ Called
    /\ UNCHANGED <<users, deleted>>
    /\ Only22

\* update_user_handler: UPDATE users SET username = ?, email = ? WHERE id = ?.
UpdateExec(q, fail) ==
    /\ Quiet
    /\ q.pc = "update"
    /\ IF fail
       THEN /\ Return(q, IntoResponse(FromSqlxError("Database")), "Database")
            /\ UNCHANGED users
       ELSE /\ users' = Update(q.id, q.payload)
            /\ Goto(q, [q EXCEPT !.pc = "select_updated"])
    /\ UNCHANGED <<solo, deleted>>
    /\ Only22

\* update_user_handler: SELECT ... WHERE id = ?; fetch_one; `?`; 200.
UpdateSelect(q, fail) ==
    /\ Quiet
    /\ q.pc = "select_updated"
    /\ LET r == FetchOne(q.id, fail) IN
        IF r.ok
        THEN Return(q, OkResponse(StatusOk, User(r.id)), "none")
        ELSE Return(q, IntoResponse(FromSqlxError(r.err)), r.err)
    /\ UNCHANGED <<users, solo, deleted>>
    /\ Only22

\* delete_user_handler: DELETE FROM users WHERE id = ?; rows_affected() == 0 => NotFound.
DeleteUser(id, fail) ==
    /\ Quiet
    /\ LET r == NewReq("delete", id, NoPayload) IN
        IF fail
        THEN /\ Return(r, IntoResponse(FromSqlxError("Database")), "Database")
             /\ UNCHANGED <<users, deleted>>
        ELSE LET rows_affected == IF HasRow(id) THEN 1 ELSE 0 IN
             /\ users' = Delete(id)
             /\ deleted' = deleted \cup {id}
             /\ IF rows_affected = 0
                THEN Return(r, IntoResponse("NotFound"), "none")
                ELSE Return(r, OkResponse(StatusNoContent, NoBody), "none")
    /\ Called
    /\ Only22

Kinds == {"list", "create", "get", "update", "delete"}

Next22 ==
    \/ Sent
    \/ \E fail \in Failing : GetUsers(fail)
    \/ \E payload \in Payloads, fail \in Failing, id \in Ids : CreateInsert(payload, fail, id)
    \/ \E q \in InFlight, fail \in Failing : CreateSelect(q, fail)
    \/ \E id \in Ids, fail \in Failing : GetUser(id, fail)
    \/ \E id \in Ids, payload \in Payloads, fail \in Failing : UpdateCheck(id, payload, fail)
    \/ \E q \in InFlight, fail \in Failing : UpdateExec(q, fail)
    \/ \E q \in InFlight, fail \in Failing : UpdateSelect(q, fail)
    \/ \E id \in Ids, fail \in Failing : DeleteUser(id, fail)

\* The server while no statement fails for a reason other than a missing row.
Next22NoFail ==
    \/ Sent
    \/ GetUsers(FALSE)
    \/ \E payload \in Payloads, id \in Ids : CreateInsert(payload, FALSE, id)
    \/ \E q \in InFlight : CreateSelect(q, FALSE)
    \/ \E id \in Ids : GetUser(id, FALSE)
    \/ \E id \in Ids, payload \in Payloads : UpdateCheck(id, payload, FALSE)
    \/ \E q \in InFlight : UpdateExec(q, FALSE)
    \/ \E q \in InFlight : UpdateSelect(q, FALSE)
    \/ \E id \in Ids : DeleteUser(id, FALSE)

----------------------------------------------------------------------------
(***************************************************************************)
(* Lesson 13: the library under test: add_two, Rectangle::can_hold and      *)
(* Guess::new, each called with arguments drawn from its parameter type.   *)
(***************************************************************************)

\* Arguments are taken within Near13 of the ends of i32 and of the values the
\* code compares with.
Near13 == 3
\* Rectangle sides are taken in 0..MaxSide13.
MaxSide13 == 3

\* i32::MIN and i32::MAX.
I32Min == (0 - 2147483647) - 1
I32Max == 2147483647

I32Inputs ==
    {I32Min + d : d \in 0 .. Near13} \cup (0 - Near13 .. 100 + Near13)
        \cup {I32Max - d : d \in 0 .. Near13}

\* a + b leaves the range of i32; no number outside that range is computed.
AddOverflows(a, b) ==
    \/ (b > 0 /\ a > I32Max - b)
    \/ (b < 0 /\ a < I32Min - b)

\* i32::wrapping_add: the two's-complement sum, which is what an overflowing
\* `+` leaves when overflow checks are off.
WrappingAdd(a, b) ==
    IF b > 0 /\ a > I32Max - b THEN I32Min + ((a - (I32Max - b)) - 1)
    ELSE IF b < 0 /\ a < I32Min - b THEN I32Max - (((I32Min - b) - a) - 1)
    ELSE a + b

\* `a + b` on i32: an addition that overflows panics when the build has overflow
\* checks (dev and test profiles) and wraps when it has not (release profile).
AddI32(a, b, overflow_checks) ==
    IF AddOverflows(a, b) /\ overflow_checks
    THEN [outcome |-> "panic", message |-> <<"attempt to add with overflow">>]
    ELSE [outcome |-> "return", value |-> WrappingAdd(a, b)]

\* An add_two with the wrong sign.
AddTwo_Subtracts(a, overflow_checks) == AddI32(a, 0 - 2, overflow_checks)

\* pub fn add_two(a: i32) -> i32 { a + 2 }.
AddTwo(a, overflow_checks) == AddI32(a, 2, overflow_checks)

\* struct Rectangle { width: u32, height: u32 }.
Sides13 == 0 .. MaxSide13
Rectangles == [width : Sides13, height : Sides13]

\* A can_hold that compares with >=.
CanHold_NotStrict(self, other) ==
    self.width >= other.width /\ self.height >= other.height

\* Rectangle::can_hold(&self, other).
CanHold(self, other) ==
    self.width > other.width /\ self.height > other.height

\* A Guess::new whose range check joins its two comparisons with &&.
GuessNew_AndForOr(value) ==
    IF value < 1 /\ value > 100
    THEN [outcome |-> "panic",
          message |-> <<"Guess value must be between 1 and 100", ", got ", value, ".">>]
    ELSE [outcome |-> "return", guess |-> [value |-> value]]

\* Guess::new(value): panic!("Guess value must be between 1 and 100, got {}.", value)
\* or Guess { value }.  The message is kept as its pieces.
GuessNew(value) ==
    IF value < 1 \/ value > 100
    THEN [outcome |-> "panic",
          message |-> <<"Guess value must be between 1 and 100", ", got ", value, ".">>]
    ELSE [outcome |-> "return", guess |-> [value |-> value]]

NoCall13 == [fn |-> "none"]

Init13 == call13 = NoCall13

\* add_two(a) is called.
CallAddTwo(a, overflow_checks) ==
    /\ call13' = [fn |-> "add_two", a |-> a, overflow_checks |-> overflow_checks,
                  result |-> AddTwo(a, overflow_checks)]
    /\ Only13

\* a.can_hold(&b) and b.can_hold(&a) are called, as the two rectangle tests do
\* with `larger` and `smaller`.
CallCanHold(a, b) ==
    /\ call13' = [fn |-> "can_hold", a |-> a, b |-> b,
                  a_holds_b |-> CanHold(a, b), b_holds_a |-> CanHold(b, a)]
    /\ Only13

\* Guess::new(value) is called.
CallGuessNew(value) ==
    /\ call13' = [fn |-> "Guess::new", value |-> value, result |-> GuessNew(value)]
    /\ Only13

Next13 ==
    \/ \E a \in I32Inputs, overflow_checks \in BOOLEAN : CallAddTwo(a, overflow_checks)
    \/ \E a \in Rectangles, b \in Rectangles : CallCanHold(a, b)
    \/ \E value \in I32Inputs : CallGuessNew(value)

----------------------------------------------------------------------------
(***************************************************************************)
(* Lesson 9: read_username_from_file_verbose and _concise, run against the  *)
(* same outcome of opening and of reading username.txt.                    *)
(***************************************************************************)

\* Result<T, io::Error>.
Ok(value) == [ok |-> TRUE, value |-> value]
Err(e) == [ok |-> FALSE, err |-> e]

\* io::Error values File::open can give, and those read_to_string can give.
OpenErrors == {[kind |-> "NotFound"], [kind |-> "PermissionDenied"]}
ReadErrors == {[kind |-> "InvalidData"], [kind |-> "IsADirectory"], [kind |-> "Other"]}

\* What the file may hold.
Contents9 == {"", "ferris", "ferris\n", "alice"}

FileHandle == [fd |-> "username.txt"]

\* File::open("username.txt"): Ok(File) or Err(io::Error).
OpenOutcomes == {Ok(FileHandle)} \cup {Err(e) : e \in OpenErrors}

\* file.read_to_string(&mut username): the text appended, or Err(io::Error).
ReadOutcomes == {Ok(c) : c \in Contents9} \cup {Err(e) : e \in ReadErrors}

NotArranged == [arranged |-> FALSE]

NotCalled9 == [pc |-> "open", username |-> "", reads |-> 0, result |-> [ok |-> FALSE, err |-> [kind |-> "unset"]]]

Init9 ==
    /\ username_txt = NotArranged
    /\ verbose9 = NotCalled9
    /\ concise9 = NotCalled9

\* The file system is in some condition when the program runs.
Arrange9(open, read) ==
    /\ username_txt = NotArranged
    /\ username_txt' = [arranged |-> TRUE, open |-> open, read |-> read]
    /\ UNCHANGED <<verbose9, concise9>>
    /\ Only9

\* A conversion that keeps only that there was an error.
FromIoError_Other(e) == [kind |-> "Other"]

\* `?` converts the error with From::from; the function returns io::Error and
\* the error is an io::Error: impl<T> From<T> for T.
FromIoError(e) == e

\* verbose, lines 54-59: File::open, then match f { Ok(file) => file, Err(e) => return Err(e) }.
VerboseOpen ==
    /\ username_txt # NotArranged
    /\ verbose9.pc = "open"
    /\ LET f == username_txt.open IN
        IF f.ok
        THEN verbose9' = [verbose9 EXCEPT !.pc = "read"]
        ELSE verbose9' = [verbose9 EXCEPT !.pc = "returned", !.result = Err(f.err)]
    /\ UNCHANGED <<username_txt, concise9>>
    /\ Only9

\* verbose, lines 61-66: username = String::new(); match file.read_to_string(..)
\* { Ok(_) => Ok(username), Err(e) => Err(e) }.
VerboseRead ==
    /\ verbose9.pc = "read"
    /\ LET r == username_txt.read IN
        IF r.ok
        THEN verbose9' = [verbose9 EXCEPT !.pc = "returned", !.reads = @ + 1,
                                          !.username = r.value, !.result = Ok(r.value)]
        ELSE verbose9' = [verbose9 EXCEPT !.pc = "returned", !.reads = @ + 1,
                                          !.result = Err(r.err)]
    /\ UNCHANGED <<username_txt, concise9>>
    /\ Only9

\* concise, line 76: File::open("username.txt")?.
ConciseOpen ==
    /\ username_txt # NotArranged
    /\ concise9.pc = "open"
    /\ LET f == username_txt.open IN
        IF f.ok
        THEN concise9' = [concise9 EXCEPT !.pc = "read"]
        ELSE concise9' = [concise9 EXCEPT !.pc = "returned", !.result = Err(FromIoError(f.err))]
    /\ UNCHANGED <<username_txt, verbose9>>
    /\ Only9

\* concise, lines 77-79: username = String::new(); file.read_to_string(..)?; Ok(username).
ConciseRead ==
    /\ concise9.pc = "read"
    /\ LET r == username_txt.read IN
        IF r.ok
        THEN concise9' = [concise9 EXCEPT !.pc = "returned", !.reads = @ + 1,
                                          !.username = r.value, !.result = Ok(r.value)]
        ELSE concise9' = [concise9 EXCEPT !.pc = "returned", !.reads = @ + 1,
                                          !.result = Err(FromIoError(r.err))]
    /\ UNCHANGED <<username_txt, verbose9>>
    /\ Only9

Next9 ==
    \/ \E open \in OpenOutcomes, read \in ReadOutcomes : Arrange9(open, read)
    \/ VerboseOpen
    \/ VerboseRead
    \/ ConciseOpen
    \/ ConciseRead

----------------------------------------------------------------------------
(***************************************************************************)
(* Lesson 14: main writes log.txt, reads it back, runs run_manual_io on     *)
(* manual_log.txt and removes both files.  Every filesystem operation may  *)
(* return Err; main prints the error and goes on, run_manual_io returns it.*)
(***************************************************************************)

LogTxt == "log.txt"
ManualLogTxt == "manual_log.txt"

\* `content_to_write`, and the two byte strings run_manual_io writes.
ContentToWrite == "Hello, File System!\nThis is line two.\nAnd a final line."
ManualLine1 == "Manual write, line 1.\n"
ManualLine2 == "Manual write, line 2.\n"

\* A file left over from an earlier run holds this.
StaleContent == <<"stale">>

Unread == <<"unread">>

Exists(name) == name \in DOMAIN fs14

\* The directory as the program may find it: each of the two files absent or stale.
Directories14 == UNION { [D -> {StaleContent}] : D \in SUBSET {LogTxt, ManualLogTxt} }

\* File::create: the file exists afterwards and is empty.
FsCreate(name) == [n \in DOMAIN fs14 \cup {name} |-> IF n = name THEN <<>> ELSE fs14[n]]

\* write_all on a handle positioned at the end of what it has written.
FsAppend(name, data) == [fs14 EXCEPT ![name] = Append(@, data)]

\* An fs::write that opens the file for appending.
FsWrite_Appends(name, data) ==
    [n \in DOMAIN fs14 \cup {name} |->
        IF n = name THEN (IF Exists(name) THEN Append(fs14[name], data) ELSE <<data>>)
        ELSE fs14[n]]

\* fs::write: File::create followed by write_all of the whole buffer.
FsWrite(name, data) == [n \in DOMAIN fs14 \cup {name} |-> IF n = name THEN <<data>> ELSE fs14[n]]

\* fs::remove_file.
FsRemove(name) == [n \in DOMAIN fs14 \ {name} |-> fs14[n]]

Init14 ==
    /\ pc14 = "start"
    /\ fs14 = [n \in {} |-> <<>>]
    /\ out14 = <<>>
    /\ failed14 = FALSE
    /\ content14 = Unread
    /\ contents14 = Unread

\* `cargo run` in a directory in some condition.
Start14(dir) ==
    /\ pc14 = "start"
    /\ fs14' = dir
    /\ pc14' = "write"
    /\ UNCHANGED <<out14, failed14, content14, contents14>>
    /\ Only14

\* An operation returned Err and changed nothing.
Failed14(next) ==
    /\ failed14' = TRUE
    /\ pc14' = next
    /\ UNCHANGED <<fs14, out14, content14, contents14>>

\* main, lines 50-53: fs::write(filename, content_to_write); an Err is printed.  A
\* failed write may already have created or emptied the file.
MainWrite14(fail, truncated) ==
    /\ pc14 = "write"
    /\ IF fail
       THEN /\ failed14' = TRUE
            /\ fs14' = IF truncated THEN FsCreate(LogTxt) ELSE fs14
            /\ UNCHANGED out14
       ELSE /\ fs14' = FsWrite(LogTxt, ContentToWrite)
            /\ out14' = Append(out14, <<"write", LogTxt>>)
            /\ UNCHANGED failed14
    /\ pc14' = "read"
    /\ UNCHANGED <<content14, contents14>>
    /\ Only14

\* main, lines 58-66: fs::read_to_string(filename); the content is printed.
MainRead14(fail) ==
    /\ pc14 = "read"
    /\ IF fail \/ ~Exists(LogTxt)
       THEN Failed14("manual_create")
       ELSE /\ content14' = fs14[LogTxt]
            /\ out14' = out14 \o << <<"read", LogTxt>>, <<"print", LogTxt>> >>
            /\ pc14' = "manual_create"
            /\ UNCHANGED <<fs14, failed14, contents14>>
    /\ Only14

\* run_manual_io returns Err through `?`; main (lines 72-74) prints it and goes on.
ManualErr == Failed14("remove_log")

\* run_manual_io, line 102: File::create(filename)?.
ManualCreate(fail) ==
    /\ pc14 = "manual_create"
    /\ IF fail
       THEN ManualErr
       ELSE /\ fs14' = FsCreate(ManualLogTxt)
            /\ out14' = Append(out14, <<"create", ManualLogTxt>>)
            /\ pc14' = "manual_write1"
            /\ UNCHANGED <<failed14, content14, contents14>>
    /\ Only14

\* run_manual_io, lines 105-106: file.write_all(..)?, first and second line.
ManualWrite(line, fail) ==
    /\ pc14 = (IF line = ManualLine1 THEN "manual_write1" ELSE "manual_write2")
    /\ IF fail
       THEN ManualErr
       ELSE /\ fs14' = FsAppend(ManualLogTxt, line)
            /\ out14' = Append(out14, <<"write", ManualLogTxt>>)
            /\ pc14' = (IF line = ManualLine1 THEN "manual_write2" ELSE "manual_open")
            /\ UNCHANGED <<failed14, content14, contents14>>
    /\ Only14

\* run_manual_io, lines 108-112: the write handle is dropped; File::open(filename)?.
ManualOpen(fail) ==
    /\ pc14 = "manual_open"
    /\ IF fail \/ ~Exists(ManualLogTxt)
       THEN ManualErr
       ELSE /\ pc14' = "manual_read"
            /\ out14' = Append(out14, <<"open", ManualLogTxt>>)
            /\ UNCHANGED <<fs14, failed14, content14, contents14>>
    /\ Only14

\* run_manual_io, lines 115-128: file.read_to_string(&mut contents)?; prints; Ok(()).
ManualRead(fail) ==
    /\ pc14 = "manual_read"
    /\ IF fail
       THEN ManualErr
       ELSE /\ contents14' = fs14[ManualLogTxt]
            /\ out14' = out14 \o << <<"read", ManualLogTxt>>, <<"print", ManualLogTxt>> >>
            /\ pc14' = "remove_log"
            /\ UNCHANGED <<fs14, failed14, content14>>
    /\ Only14

\* main, lines 78-85: fs::remove_file of log.txt, then of manual_log.txt; an Err is printed.
RemoveFile(name, fail) ==
    /\ pc14 = (IF name = LogTxt THEN "remove_log" ELSE "remove_manual")
    /\ IF fail \/ ~Exists(name)
       THEN Failed14(IF name = LogTxt THEN "remove_manual" ELSE "done")
       ELSE /\ fs14' = FsRemove(name)
            /\ out14' = Append(out14, <<"remove", name>>)
            /\ pc14' = (IF name = LogTxt THEN "remove_manual" ELSE "done")
            /\ UNCHANGED <<failed14, content14, contents14>>
    /\ Only14

Next14 ==
    \/ \E dir \in Directories14 : Start14(dir)
    \/ \E fail \in BOOLEAN, truncated \in BOOLEAN : MainWrite14(fail, truncated)
    \/ \E fail \in BOOLEAN : MainRead14(fail)
    \/ \E fail \in BOOLEAN : ManualCreate(fail)
    \/ \E line \in {ManualLine1, ManualLine2}, fail \in BOOLEAN : ManualWrite(line, fail)
    \/ \E fail \in BOOLEAN : ManualOpen(fail)
    \/ \E fail \in BOOLEAN : ManualRead(fail)
    \/ \E name \in {LogTxt, ManualLogTxt}, fail \in BOOLEAN : RemoveFile(name, fail)

----------------------------------------------------------------------------
(***************************************************************************)
(* Lesson 16, section 3: a MockMessenger is created, send is called on it   *)
(* some number of times, then sent_messages is borrowed and its length is  *)
(* asserted on.  main is the run with the two sends of lines 132-133.      *)
(***************************************************************************)

\* send is called at most MaxSends times on one messenger.
MaxSends == 3

FirstMessage == "First message"
SecondMessage == "Second message"
Messages16 == {FirstMessage, SecondMessage, "Third message"}

\* `assert_eq!(messages.len(), 2)`.
ExpectedLen16 == 2

\* String::from(message): an owned copy of the text.
StringFrom(message) == message

\* A push that puts the element in front.
VecPush_Front(vec, elem) == <<elem>> \o vec

\* Vec::push.
VecPush(vec, elem) == Append(vec, elem)

Init16 ==
    /\ pc16 = "start"
    /\ sent_messages = <<>>
    /\ borrow16 = 0
    /\ calls16 = <<>>
    /\ len16 = 0 - 1

\* MockMessenger::new(): Rc::new(RefCell::new(vec![])).
New16 ==
    /\ pc16 = "start"
    /\ pc16' = "created"
    /\ sent_messages' = <<>>
    /\ borrow16' = 0
    /\ UNCHANGED <<calls16, len16>>
    /\ Only16

\* Messenger::send: borrow_mut() panics when the RefCell is borrowed; otherwise
\* the message is pushed and the RefMut, a temporary, is dropped with the statement.
Send16(message) ==
    /\ pc16 \in {"created", "borrowed", "asserted"}
    /\ Len(calls16) < MaxSends
    /\ calls16' = Append(calls16, message)
    /\ IF borrow16 # 0
       THEN /\ pc16' = "send_panicked"
            /\ UNCHANGED <<sent_messages, borrow16>>
       ELSE /\ sent_messages' = VecPush(sent_messages, StringFrom(message))
            /\ borrow16' = 0
            /\ UNCHANGED pc16
    /\ UNCHANGED len16
    /\ Only16

\* main, lines 136-137: let messages = sent_messages.borrow(); messages.len().
Borrow16 ==
    /\ pc16 = "created"
    /\ borrow16 >= 0
    /\ borrow16' = borrow16 + 1
    /\ len16' = Len(sent_messages)
    /\ pc16' = "borrowed"
    /\ UNCHANGED <<sent_messages, calls16>>
    /\ Only16

\* main, line 138: assert_eq!(messages.len(), 2).
Assert16 ==
    /\ pc16 = "borrowed"
    /\ pc16' = (IF len16 = ExpectedLen16 THEN "asserted" ELSE "assert_failed")
    /\ UNCHANGED <<sent_messages, borrow16, calls16, len16>>
    /\ Only16

Next16 ==
    \/ New16
    \/ \E message \in Messages16 : Send16(message)
    \/ Borrow16
    \/ Assert16

----------------------------------------------------------------------------
(***************************************************************************)
(* The specifications: one lesson runs, the others stay as constructed.    *)
(***************************************************************************)

InitAll == Init19 /\ Init18 /\ Init20 /\ Init22 /\ Init13 /\ Init9 /\ Init14 /\ Init16

\* The lessons are separate binaries: while one of lessons 18-20 runs, the web
\* API's server is not started and its table is left empty.
InitLesson == InitAll /\ DOMAIN users = {}

Spec19 == InitLesson /\ [][Next19]_vars

Spec18 == InitLesson /\ [][Next18]_vars

Spec20 == InitLesson /\ [][Next20]_vars

Spec22 == InitAll /\ [][Next22]_vars

Spec22NoFail == InitAll /\ [][Next22NoFail]_vars

Spec13 == InitLesson /\ [][Next13]_vars

Spec9 == InitLesson /\ [][Next9]_vars

Spec14 == InitLesson /\ [][Next14]_vars

Spec16 == InitLesson /\ [][Next16]_vars

AllJoined19 == pc19[MainThread] \in {"lock_final", "read_final", "assert", "done", "panicked"}

\* C1: for every interleaving of the ten threads, once main has joined all ten
\* handles the counter is exactly 10, final_count reads 10 and the assert_eq!
\* never fails.
C1_FinalCountIsTen ==
    /\ AllJoined19 => counter = ExpectedCount
    /\ pc19[MainThread] \in {"assert", "done"} => final_count = ExpectedCount
    /\ pc19[MainThread] # "panicked"

C1_Witness ==
    /\ pc19[MainThread] = "done"
    /\ joined19 = NumThreads
    /\ final_count = 10

GuardHolders == {t \in Threads19 : HoldsGuard(t)}

AtLock(t) == IF t = MainThread THEN pc19[t] = "lock_final" ELSE pc19[t] = "lock"

\* A step that reads or writes the counter (every such step changes a local
\* that receives the value, or the counter itself).
AccessStep ==
    \/ counter' # counter
    \/ loaded' # loaded
    \/ final_count' # final_count

C2_Exclusive ==
    /\ Cardinality(GuardHolders) <= 1
    /\ \A t \in GuardHolders : mutex_locked /\ guard_owner = t

C2_Step ==
    /\ AccessStep =>
            \A t \in Threads19 : pc19'[t] # pc19[t] => (HoldsGuard(t) /\ guard_owner = t)
    /\ \A t \in Threads19 :
            (AtLock(t) /\ mutex_locked) => pc19'[t] = pc19[t]

\* C2: at every moment at most one thread (a worker or main) holds the lock, the
\* counter is read or written only by the thread holding the lock, and a thread
\* at lock() while the lock is held does not proceed until it is released.
C2_MutualExclusion == []C2_Exclusive /\ [][C2_Step]_vars

C2_Witness ==
    \E t, u \in Threads19 : t # u /\ AtLock(t) /\ HoldsGuard(u) /\ mutex_locked

\* The lines 1, 2, ..., n in increasing order.
UpTo(n) == [k \in 1..n |-> k]

IsPrefixOfUpTo(out, n) == Len(out) <= n /\ \A k \in 1..Len(out) : out[k] = k

FinishedLinePrinted == \E k \in 1..Len(mainOut) : mainOut[k][1] = "finished"

JoinBReturned == pc18 \in {"finished", "spawnC", "joinC", "return", "exited"}

\* C3: in section 2 of lesson 18, in every interleaving, handle.join() has
\* returned and the "Spawned thread has finished" line is printed only after the
\* joined thread has printed all five of its lines, 1 to 5 in increasing order.
C3_JoinAfterAllLines ==
    /\ IsPrefixOfUpTo(outT["B"], ItersB)
    /\ JoinBReturned => outT["B"] = UpTo(5)
    /\ FinishedLinePrinted => (JoinBReturned /\ outT["B"] = UpTo(5))

C3_Witness ==
    /\ FinishedLinePrinted
    /\ outT["B"] = <<1, 2, 3, 4, 5>>
    /\ Len(mainOut) = MainIters1 + MainIters2 + 1

\* main is blocked only inside a join of thread B or of thread C.
MainBlockedOnlyInJoin ==
    \/ exited18
    \/ ENABLED (SpawnA \/ MainPrint(1) \/ MainPrint(2) \/ MainWake1 \/ SpawnB \/ MainWake2
                 \/ JoinB \/ PrintFinished \/ SpawnC \/ JoinC \/ MainReturn)
    \/ (pc18 = "joinB" /\ pcT["B"] # "done")
    \* thread C runs only after B was joined
    \/ (pc18 = "joinC" /\ pcT["C"] # "done")

\* C4: the first thread of lesson 18 is never joined: main never waits for it,
\* so whenever main stands at its return while that thread is still running,
\* both the exit and the thread's next step are possible (the number of lines
\* printed before the exit is open), and after the exit the thread prints
\* nothing more: it may have printed any prefix of its five lines.
C4_UnjoinedThreadRace ==
    /\ MainBlockedOnlyInJoin
    /\ (pc18 = "return" /\ pcT["A"] # "done") =>
            (ENABLED MainReturn /\ ENABLED (ThreadPrint("A") \/ ThreadWake("A")))
    /\ IsPrefixOfUpTo(outT["A"], ItersA)
    /\ exited18 => ~ENABLED (ThreadPrint("A") \/ ThreadWake("A"))

\* The program has terminated and the first thread printed fewer than five lines.
C4_Witness ==
    /\ exited18
    /\ Len(outT["A"]) < 5
    /\ pcT["A"] # "done"

RECURSIVE OfPhase(_, _)
\* The events of one phase, in the order printed.
OfPhase(evs, phase) ==
    IF evs = <<>> THEN <<>>
    ELSE IF Head(evs)[1] = phase THEN <<Head(evs)>> \o OfPhase(Tail(evs), phase)
    ELSE OfPhase(Tail(evs), phase)

SeqEvents == OfPhase(events, "seq")
ConcEvents == OfPhase(events, "conc")

SeqOrder ==
    << <<"seq", "learn", "start">>, <<"seq", "learn", "finish">>,
       <<"seq", "sing", "start">>,  <<"seq", "sing", "finish">>,
       <<"seq", "dance", "start">>, <<"seq", "dance", "finish">> >>

IsPrefix(a, b) == Len(a) <= Len(b) /\ \A k \in 1..Len(a) : a[k] = b[k]

\* C5: in the sequential phase each function completes before the next one
\* starts: the start/finish lines appear in exactly the order learn-start,
\* learn-finish, sing-start, sing-finish, dance-start, dance-finish, and all six
\* have appeared when the phase is over.
C5_SequentialOrder ==
    /\ IsPrefix(SeqEvents, SeqOrder)
    /\ pc20 \notin {"start", "seq"} => SeqEvents = SeqOrder

C5_Witness ==
    /\ pc20 = "conc_begin"
    /\ SeqEvents = SeqOrder

JoinReturned == pc20 \in {"conc_report", "done"}

\* C6: in the concurrent phase all three functions have printed their start line
\* before any of them prints its finish line, and tokio::join! has returned (the
\* "Concurrent execution took" line is printed) only after all three finish lines.
C6_JoinStartsAllWaitsAll ==
    /\ \A i \in 1..Len(ConcEvents) :
            ConcEvents[i][3] = "finish" =>
                \A f \in FnSet : \E j \in 1..(i - 1) : ConcEvents[j] = <<"conc", f, "start">>
    /\ (JoinReturned \/ conc_elapsed # Unset) =>
            \A f \in FnSet : \E j \in 1..Len(ConcEvents) : ConcEvents[j] = <<"conc", f, "finish">>

C6_Witness ==
    /\ conc_elapsed # Unset
    /\ Len(ConcEvents) = 6
    /\ late > 0

\* C7: on a clock where every sleep lasts exactly its duration and nothing else
\* takes time (no late tick), the sequential phase takes 500 + 600 + 700 = 1800 ms
\* and the concurrent phase takes the longest duration only, 700 ms.
C7_ExactClockDurations ==
    late = 0 =>
        /\ seq_elapsed # Unset => seq_elapsed = 1800 /\ seq_elapsed = LearnMs + SingMs + DanceMs
        /\ conc_elapsed # Unset => conc_elapsed = 700

C7_Witness ==
    /\ pc20 = "done"
    /\ late = 0
    /\ seq_elapsed = 1800
    /\ conc_elapsed = 700

\* The status a handler's Ok(..) carries.
SuccessStatus(kind) ==
    IF kind = "create" THEN 201 ELSE IF kind = "delete" THEN 204 ELSE 200

\* C8: every response of the five handlers carries 200, 201, 204, 404 or 500: an
\* Ok return gives 200 (list, get, update), 201 (create) or 204 (delete), an Err
\* return gives 404 or 500 and nothing else.
C8_StatusCodes ==
    ~Quiet =>
        /\ last.kind \in Kinds
        /\ last.response.status \in {200, 201, 204, 404, 500}
        /\ last.response.result \in {"Ok", "Err"}
        /\ last.response.result = "Ok" => last.response.status = SuccessStatus(last.kind)
        /\ last.response.result = "Err" => last.response.status \in {404, 500}

C8_Witness ==
    /\ last.kind = "create"
    /\ last.response.result = "Ok"
    /\ last.response.status = 201

\* The request found no row for the id it addresses: fetch_one gave RowNotFound,
\* or the DELETE affected no row.
MissingRow(r) ==
    \/ r.sqlx_err = "RowNotFound"
    \/ (r.kind = "delete" /\ r.response.result = "Err" /\ r.sqlx_err = "none")

\* C9: in every handler a failed database operation that is not a missing row
\* yields 500 with {"error": "Internal Server Error"}, a request addressing an id
\* that has no row yields 404 with {"error": "Resource not found"}, and these are
\* the only two error responses.
C9_TwoErrorConditions ==
    ~Quiet =>
        /\ last.sqlx_err = "Database" =>
                /\ last.response.status = 500
                /\ last.response.body = [error |-> "Internal Server Error"]
        /\ MissingRow(last) =>
                /\ last.response.status = 404
                /\ last.response.body = [error |-> "Resource not found"]
        /\ last.response.result = "Err" => (last.sqlx_err = "Database" \/ MissingRow(last))

\* A step in which get_user_handler runs and returns.
GetUserStep == Quiet /\ last'.kind = "get"

\* C10 as stated: GET /api/users/:id returns 200 with the row whose id is the path
\* id when such a row exists, 404 when none exists, and leaves the table unchanged.
C10_GetAsStated ==
    [][GetUserStep =>
        /\ users' = users
        /\ HasRow(last'.id) =>
                (last'.response.status = 200 /\ last'.response.body = User(last'.id))
        /\ ~HasRow(last'.id) => last'.response.status = 404]_vars

\* C10, amended: GET /api/users/:id leaves the users table unchanged; when its
\* query does not fail for a reason other than a missing row it returns 200 with
\* the row (id, username, email) whose id is the path id if such a row exists and
\* 404 if none exists; when the query fails it returns 500.
C10_GetUnlessQueryFails ==
    [][GetUserStep =>
        /\ users' = users
        /\ IF last'.sqlx_err = "Database"
           THEN last'.response.status = 500
           ELSE /\ HasRow(last'.id) =>
                        /\ last'.response.status = 200
                        /\ last'.response.body =
                                [id |-> last'.id, username |-> users[last'.id].username,
                                 email |-> users[last'.id].email]
                /\ ~HasRow(last'.id) => last'.response.status = 404]_vars

C10_Witness ==
    /\ last.kind = "get"
    /\ HasRow(last.id)
    /\ last.response.status = 200
    /\ last.response.body.id = last.id

\* The request that has just returned ran alone and none of its statements failed.
RanAlone(kind) ==
    /\ last.kind = kind
    /\ last.pc = "responded"
    /\ solo.alone
    /\ last.sqlx_err # "Database"

\* C11: a POST /api/users that runs with no concurrent request and no database
\* failure adds exactly one row carrying the payload's username and email under
\* an id no row had, leaves every other row unchanged and returns 201 with that
\* new row.
C11_CreateAlone ==
    RanAlone("create") =>
        /\ ~(last.new_user_id \in DOMAIN solo.users)
        /\ DOMAIN users = DOMAIN solo.users \cup {last.new_user_id}
        /\ users[last.new_user_id] = last.payload
        /\ \A i \in DOMAIN solo.users : users[i] = solo.users[i]
        /\ last.response.status = 201
        /\ last.response.body =
                [id |-> last.new_user_id, username |-> last.payload.username,
                 email |-> last.payload.email]

C11_Witness ==
    /\ RanAlone("create")
    /\ DOMAIN solo.users # {}
    /\ last.response.status = 201

\* C12: a PUT /api/users/:id that runs with no concurrent request and no
\* database failure: if a row with that id exists, its username and email become
\* the payload's, its id is kept, every other row is unchanged and the response
\* is 200 with the updated row; if no row has that id, the response is 404 and
\* the table is unchanged.
C12_UpdateAlone ==
    RanAlone("update") =>
        IF last.id \in DOMAIN solo.users
        THEN /\ DOMAIN users = DOMAIN solo.users
             /\ users[last.id] = last.payload
             /\ \A i \in DOMAIN solo.users \ {last.id} : users[i] = solo.users[i]
             /\ last.response.status = 200
             /\ last.response.body =
                    [id |-> last.id, username |-> last.payload.username,
                     email |-> last.payload.email]
        ELSE /\ last.response.status = 404
             /\ users = solo.users

C12_Witness ==
    /\ RanAlone("update")
    /\ last.response.status = 200
    /\ solo.users[last.id] # last.payload
    /\ \E i \in DOMAIN users \ {last.id} : users[i] # last.payload

\* A step in which delete_user_handler runs and returns.
DeleteUserStep == Quiet /\ last'.kind = "delete"

\* C13 as stated: DELETE /api/users/:id removes exactly the row with that id and
\* returns 204 when the row exists; when no row has that id it returns 404 and
\* the table is unchanged, so a second DELETE of the same id with no POST in
\* between returns 404.
C13_DeleteAsStated ==
    [][DeleteUserStep =>
        /\ HasRow(last'.id) =>
                /\ users' = [i \in DOMAIN users \ {last'.id} |-> users[i]]
                /\ last'.response.status = 204
        /\ ~HasRow(last'.id) => (last'.response.status = 404 /\ users' = users)
        /\ last'.id \in deleted => last'.response.status = 404]_vars

\* C13, amended: a DELETE /api/users/:id whose statement fails returns 500 and
\* leaves the table unchanged; otherwise it removes exactly the row with that id
\* and returns 204 when the row exists, returns 404 and leaves the table unchanged
\* when no row has that id, and returns 404 when it follows a DELETE of the same
\* id whose statement did not fail, with no POST in between.
C13_DeleteUnlessStatementFails ==
    [][DeleteUserStep =>
        IF last'.sqlx_err = "Database"
        THEN last'.response.status = 500 /\ users' = users
        ELSE /\ HasRow(last'.id) =>
                    /\ users' = [i \in DOMAIN users \ {last'.id} |-> users[i]]
                    /\ last'.response.status = 204
             /\ ~HasRow(last'.id) => (last'.response.status = 404 /\ users' = users)
             /\ last'.id \in deleted => last'.response.status = 404]_vars

\* A second DELETE of an id has answered 404, other rows being left in the table.
C13_Witness ==
    /\ last.kind = "delete"
    /\ last.pc = "responded"
    /\ last.response.status = 404
    /\ last.sqlx_err = "none"
    /\ deleted = {last.id}
    /\ users # NotAlone.users

\* C20: when no database statement fails for any reason other than finding no
\* matching row, no interleaving of concurrent requests makes a handler respond
\* 500.
C20_NoServerErrorWithoutFailure ==
    ~Quiet => last.response.status # 500

\* C14: Guess::new(value) panics, with a message containing 'Guess value must be
\* between 1 and 100', exactly when value is not between 1 and 100 inclusive; for
\* 1 <= value <= 100 it returns a Guess holding that value, so every Guess that
\* exists holds a value in 1..=100.
C14_GuessNewRange ==
    call13.fn = "Guess::new" =>
        /\ (call13.result.outcome = "panic") <=> ~(1 <= call13.value /\ call13.value <= 100)
        /\ call13.result.outcome = "panic" =>
                \E i \in DOMAIN call13.result.message :
                    call13.result.message[i] = "Guess value must be between 1 and 100"
        /\ call13.result.outcome # "panic" =>
                /\ call13.result.outcome = "return"
                /\ call13.result.guess.value = call13.value
                /\ call13.result.guess.value \in 1..100

C14_Witness ==
    /\ call13.fn = "Guess::new"
    /\ call13.value = 101
    /\ call13.result.outcome = "panic"

\* C15: a.can_hold(b) is true exactly when a.width > b.width and a.height >
\* b.height; so if a can hold b then b cannot hold a, and no rectangle can hold
\* itself or a rectangle equal to it in either dimension.
C15_StrictContainment ==
    call13.fn = "can_hold" =>
        /\ call13.a_holds_b <=>
                (call13.a.width > call13.b.width /\ call13.a.height > call13.b.height)
        /\ call13.a_holds_b => ~call13.b_holds_a
        /\ call13.a = call13.b => ~call13.a_holds_b
        /\ (call13.a.width = call13.b.width \/ call13.a.height = call13.b.height) =>
                (~call13.a_holds_b /\ ~call13.b_holds_a)

C15_Witness ==
    /\ call13.fn = "can_hold"
    /\ call13.a_holds_b
    /\ ~call13.b_holds_a
    /\ call13.b.width > 0

\* v is a + 2; a + 2 is no i32 when a > i32::MAX - 2, and v is one.
IsAPlusTwo(v, a) == a <= I32Max - 2 /\ v = a + 2

\* C16 as stated: for every 32-bit signed input a, add_two(a) returns a + 2.
C16_AddTwoAsStated ==
    call13.fn = "add_two" =>
        /\ call13.result.outcome = "return"
        /\ IsAPlusTwo(call13.result.value, call13.a)

\* C16, amended: for every 32-bit signed input a <= i32::MAX - 2, add_two(a)
\* returns a + 2; for the two larger inputs it panics with an overflow message
\* when the build checks overflow and returns a + 2 - 2^32 when it does not.
C16_AddTwoWithinRange ==
    call13.fn = "add_two" =>
        IF call13.a <= I32Max - 2
        THEN /\ call13.result.outcome = "return"
             /\ IsAPlusTwo(call13.result.value, call13.a)
        ELSE IF call13.overflow_checks
        THEN /\ call13.result.outcome = "panic"
             /\ call13.result.message = <<"attempt to add with overflow">>
        ELSE /\ call13.result.outcome = "return"
             /\ call13.result.value = I32Min + (call13.a - (I32Max - 1))

C16_Witness ==
    /\ call13.fn = "add_two"
    /\ call13.a = I32Max - 2
    /\ call13.result.outcome = "return"
    /\ call13.result.value = I32Max

\* What the claim says a function returns for the arranged outcomes.
Expected9 ==
    IF ~username_txt.open.ok THEN Err(username_txt.open.err)
    ELSE IF ~username_txt.read.ok THEN Err(username_txt.read.err)
    ELSE Ok(username_txt.read.value)

\* C17: for every outcome of opening username.txt and of reading it, the concise
\* and the verbose function return the same Result: the open error, without
\* attempting a read, if the open fails; otherwise the read error if the read
\* fails; otherwise Ok with the file's contents.
C17_ConciseEqualsVerbose ==
    /\ (verbose9.pc = "returned" /\ concise9.pc = "returned") =>
            /\ concise9.result = verbose9.result
            /\ concise9.result = Expected9
            /\ concise9.reads = verbose9.reads
    /\ (username_txt # NotArranged /\ ~username_txt.open.ok) =>
            (verbose9.reads = 0 /\ concise9.reads = 0 /\ verbose9.pc # "read" /\ concise9.pc # "read")

C17_Witness ==
    /\ verbose9.pc = "returned"
    /\ concise9.pc = "returned"
    /\ username_txt.open.ok
    /\ ~username_txt.read.ok
    /\ concise9.result = Err([kind |-> "InvalidData"])
    /\ concise9.reads = 1

\* The first position of the event in out14, or 0 when it has not happened.
Position14(event) ==
    IF \E i \in DOMAIN out14 : out14[i] = event
    THEN CHOOSE i \in DOMAIN out14 : out14[i] = event /\ \A j \in 1..(i - 1) : out14[j] # event
    ELSE 0

Before14(e1, e2) == Position14(e2) # 0 => (Position14(e1) # 0 /\ Position14(e1) < Position14(e2))

\* C18: when every filesystem operation succeeds, the content read from log.txt
\* equals the content written, it is printed, each read happens after its write
\* and each delete after its read, and when the program ends neither log.txt nor
\* manual_log.txt exists.
C18_WriteReadDelete ==
    ~failed14 =>
        /\ content14 # Unread => content14 = <<ContentToWrite>>
        /\ \A name \in {LogTxt, ManualLogTxt} :
                /\ Before14(<<"write", name>>, <<"read", name>>)
                /\ Before14(<<"read", name>>, <<"print", name>>)
                /\ Before14(<<"read", name>>, <<"remove", name>>)
        /\ pc14 = "done" =>
                /\ ~Exists(LogTxt)
                /\ ~Exists(ManualLogTxt)
                /\ Position14(<<"print", LogTxt>>) # 0
                /\ Position14(<<"remove", LogTxt>>) # 0
                /\ Position14(<<"remove", ManualLogTxt>>) # 0

C18_Witness ==
    /\ pc14 = "done"
    /\ ~failed14
    /\ content14 = <<ContentToWrite>>
    /\ Len(out14) = 11

\* C19: after any sequence of n calls to send on a freshly created messenger,
\* sent_messages holds exactly those n messages in call order; in main, after the
\* two sends, the length is 2 and assert_eq!(messages.len(), 2) holds.
C19_SentMessagesInCallOrder ==
    /\ pc16 = "created" =>
            /\ sent_messages = calls16
            /\ Len(sent_messages) = Len(calls16)
            /\ borrow16 = 0
    /\ (pc16 = "borrowed" /\ calls16 = <<FirstMessage, SecondMessage>>) => len16 = 2
    /\ (calls16 = <<FirstMessage, SecondMessage>> /\ pc16 # "send_panicked") =>
            pc16 # "assert_failed"

C19_Witness ==
    /\ pc16 = "asserted"
    /\ calls16 = <<FirstMessage, SecondMessage>>
    /\ sent_messages = <<FirstMessage, SecondMessage>>
    /\ len16 = 2

\* The body carries the username and email of the payload.
CarriesPayload(body, payload) ==
    body.username = payload.username /\ body.email = payload.email

\* C21 as stated: under any interleaving of concurrent requests, a PUT that
\* responds 200 returns a body whose id is the path id and whose username and
\* email equal its own payload's, and a POST that responds 201 returns a body
\* whose username and email equal its own payload's.
C21_OwnPayloadReturned ==
    /\ (last.kind = "update" /\ last.response.status = 200) =>
            /\ last.response.body.id = last.id
            /\ CarriesPayload(last.response.body, last.payload)
    /\ (last.kind = "create" /\ last.response.status = 201) =>
            CarriesPayload(last.response.body, last.payload)

\* C21, amended: under any interleaving, a PUT that responds 200 returns a body
\* whose id is the path id, and a POST that responds 201 a body whose id is the
\* id of the row it inserted; the username and email of the body are those the
\* row holds when the handler's final SELECT runs, and they equal the request's
\* own payload's when no other request ran between the handler's statements.
C21_RowAsSelected ==
    /\ (last.kind = "update" /\ last.response.status = 200) =>
            /\ last.response.body.id = last.id
            /\ HasRow(last.id)
            /\ CarriesPayload(last.response.body, users[last.id])
            /\ solo.alone => CarriesPayload(last.response.body, last.payload)
    /\ (last.kind = "create" /\ last.response.status = 201) =>
            /\ last.response.body.id = last.new_user_id
            /\ HasRow(last.new_user_id)
            /\ CarriesPayload(last.response.body, users[last.new_user_id])
            /\ solo.alone => CarriesPayload(last.response.body, last.payload)

\* A PUT answered 200 with another request's data, written between its UPDATE
\* and its final SELECT.
C21_Witness ==
    /\ last.kind = "update"
    /\ last.response.status = 200
    /\ last.response.body.id = last.id
    /\ ~solo.alone
    /\ ~CarriesPayload(last.response.body, last.payload)

====
